---- MODULE Spec2Model ----
(***************************************************************************)
(* ReadyBuddy (src/main.py): the persistence and request-handling layer.   *)
(*                                                                         *)
(* Strings are sequences of one-character strings, so that parsing         *)
(* (int(...)), formatting (str(...)) and comparison are computed.          *)
(* The SQLite file is shared by the worker processes; every handler opens  *)
(* its own connection, so the handlers are modelled step by step           *)
(* (connect, execute, commit, close) and may interleave across workers.    *)
(***************************************************************************)
EXTENDS Integers, Sequences, FiniteSets, TLC

(* ------------------------------ bounds -------------------------------- *)
\* largest id the model lets user_profiles hand out
MaxProfileId == 2
\* largest id the model lets quiz_results hand out
MaxResultId == 1

\* the worker processes that share the database file
Procs == {"w1", "w2"}

(* ------------------------------ values -------------------------------- *)
\* Python's None: a value that is no string (no string has a character "<None>")
None == <<"<None>">>

Digits == <<"0","1","2","3","4","5","6","7","8","9">>
IsDigit(c) == \E i \in 1..10 : Digits[i] = c
DigitVal(c) == (CHOOSE i \in 1..10 : Digits[i] = c) - 1
\* str.isspace() on the characters the inputs use
IsSpace(c) == c = " "

\* Python truthiness of an Optional[str]: None and "" are falsy
Truthy(s) == s # None /\ Len(s) > 0

RECURSIVE LStrip(_)
LStrip(s) == IF Len(s) > 0 /\ IsSpace(Head(s)) THEN LStrip(Tail(s)) ELSE s
RECURSIVE RStrip(_)
RStrip(s) == IF Len(s) > 0 /\ IsSpace(s[Len(s)]) THEN RStrip(SubSeq(s, 1, Len(s) - 1)) ELSE s
Strip(s) == RStrip(LStrip(s))

RECURSIVE DigitsVal(_)
DigitsVal(s) == IF Len(s) = 0 THEN 0 ELSE 10 * DigitsVal(SubSeq(s, 1, Len(s) - 1)) + DigitVal(s[Len(s)])

\* int(s) for a str s: surrounding whitespace is ignored, one optional sign,
\* then at least one decimal digit; anything else raises ValueError (ok = FALSE)
PyInt(s) ==
  LET t == Strip(s)
      neg == Len(t) > 0 /\ Head(t) = "-"
      signed == Len(t) > 0 /\ Head(t) \in {"-", "+"}
      d == IF signed THEN Tail(t) ELSE t
  IN IF Len(d) > 0 /\ \A i \in 1..Len(d) : IsDigit(d[i])
       THEN [ok |-> TRUE, val |-> IF neg THEN 0 - DigitsVal(d) ELSE DigitsVal(d)]
       ELSE [ok |-> FALSE, val |-> 0]

\* str(n) for an int n >= 0 (row ids are never negative)
RECURSIVE PyStr(_)
PyStr(n) == IF n < 10 THEN <<Digits[n + 1]>> ELSE PyStr(n \div 10) \o <<Digits[(n % 10) + 1]>>

(* --------------------------- content catalog -------------------------- *)
\* the module list: id and the quiz answer (the other fields are only rendered)
modules == <<
  [id |-> 1, answer |-> <<"O","n","e"," ","g","a","l","l","o","n">>],
  [id |-> 2, answer |-> <<"E","v","e","r","y"," ","m","o","n","t","h">>],
  [id |-> 3, answer |-> <<"U","n","d","e","r"," ","a"," ","s","t","u","r","d","y"," ","t","a","b","l","e">>],
  [id |-> 4, answer |-> <<"U","s","e"," ","c","o","o","l"," ","w","a","t","e","r"," ","a","n","d"," ","c","o","v","e","r"," ","w","i","t","h"," ","a"," ","s","t","e","r","i","l","e"," ","g","a","u","z","e">>],
  [id |-> 5, answer |-> <<"I","n"," ","c","a","s","e"," ","r","o","a","d","s"," ","a","r","e"," ","b","l","o","c","k","e","d">>],
  [id |-> 6, answer |-> <<"D","r","o","p",","," ","C","o","v","e","r",","," ","a","n","d"," ","H","o","l","d"," ","O","n">>],
  [id |-> 7, answer |-> <<"I","m","m","e","d","i","a","t","e","l","y"," ","g","o"," ","t","o"," ","h","i","g","h"," ","g","r","o","u","n","d">>],
  [id |-> 8, answer |-> <<"I","g","n","o","r","e"," ","l","o","c","a","l"," ","a","u","t","h","o","r","i","t","i","e","s">>],
  [id |-> 9, answer |-> <<"F","i","n","d","i","n","g"," ","a"," ","s","a","f","e"," ","w","a","t","e","r"," ","s","o","u","r","c","e">>]
>>

\* GetModule with a default: an unknown id falls back to the first module
GetModuleOrFirst(module_id) ==
  IF \E i \in 1..Len(modules) : modules[i].id = module_id
    THEN {modules[CHOOSE i \in 1..Len(modules) :
                    /\ modules[i].id = module_id
                    /\ \A j \in 1..(i - 1) : modules[j].id # module_id]}
    ELSE {modules[1]}

\* next((m for m in modules if m.id == module_id), None); an Optional that is
\* no string is a set with at most one element, {} being None
GetModule(module_id) ==
  IF \E i \in 1..Len(modules) : modules[i].id = module_id
    THEN {modules[CHOOSE i \in 1..Len(modules) :
                    /\ modules[i].id = module_id
                    /\ \A j \in 1..(i - 1) : modules[j].id # module_id]}
    ELSE {}

\* Grade comparing after trimming: selected_option.strip() == answer.strip()
GradeTrimmed(selected_option, module) == Strip(selected_option) = Strip(module.answer)

\* correct = selected_option == module.question["answer"]
Grade(selected_option, module) == selected_option = module.answer

\* score = 1 if correct else 0
Score(correct) == IF correct THEN 1 ELSE 0

(* ------------------------------ requests ------------------------------ *)
Portland == <<"P","o","r","t","l","a","n","d">>
Beginner == <<"b","e","g","i","n","n","e","r">>
OneGallon == <<"O","n","e"," ","g","a","l","l","o","n">>
OneGallonLower == <<"o","n","e"," ","g","a","l","l","o","n">>
OneGallonSpace == <<"O","n","e"," ","g","a","l","l","o","n"," ">>

\* query parameters of /onboarding: absent, or some text
FamilySizeInputs == {None, <<"0">>, <<"-","1">>, <<"a">>, <<"3">>}
LocationInputs == {<<>>, Portland}
SkillInputs == {None, Beginner}
\* the submissions the model sends: every family_size with the other fields
\* filled in, and a good family_size with every choice of the other fields
OnboardingInputs ==
  (FamilySizeInputs \X {Portland} \X {Beginner}) \cup ({<<"3">>} \X LocationInputs \X SkillInputs)

\* path parameter of /modules/{module_id}: a catalog id and an unknown one
ModuleIdInputs == {1, 999}
\* the user_id cookie a client presents: none, garbage, or the decimal text of an id
CookieInputs == {None, <<"x">>} \cup {PyStr(i) : i \in 1..MaxProfileId}
\* the quiz submissions the model sends: the right option for module 1 with
\* every cookie; a near miss, no option, and an unknown module, without a
\* cookie and with one
QuizInputs ==
  ({1} \X {OneGallon} \X CookieInputs)
    \cup ({1} \X {OneGallonLower, OneGallonSpace} \X {None, PyStr(1)})
    \cup ({1} \X {None, <<>>} \X {None, PyStr(1)})
    \cup ({999} \X {None, OneGallon} \X {None, PyStr(1)})
ReadRoutes == {"home", "modules_list", "view_checklist", "resources_page"}

NoReq == [kind |-> "none", family_size |-> None, location |-> None, skill_level |-> None,
          module_id |-> 0, selected_option |-> None, cookie |-> None]
NoResp == [status |-> 0, body |-> <<>>, cookie |-> None, correct |-> FALSE]
NoLocal == [user_id |-> {}, pending |-> {}]

OnboardingReq(fs, loc, sk) == [NoReq EXCEPT !.kind = "submit_onboarding", !.family_size = fs,
                                            !.location = loc, !.skill_level = sk]
QuizReq(mid, sel, ck) == [NoReq EXCEPT !.kind = "submit_quiz", !.module_id = mid,
                                       !.selected_option = sel, !.cookie = ck]

(* ------------------------------- state -------------------------------- *)
VARIABLES
  tables,           \* names of the tables that exist in the database file
  user_profiles,    \* committed rows of user_profiles
  quiz_results,     \* committed rows of quiz_results
  sqlite_sequence,  \* AUTOINCREMENT: per table, the largest id ever committed
  pc,               \* each worker's position
  req,              \* the request a worker is handling
  local,            \* handler locals: user_id ({} is None) and the uncommitted row
  conn,             \* the handler's connection: "none", "open", "txn"
  resp,             \* the response of the handler that has returned
  faulted,          \* a storage fault struck the current handler
  wrote,            \* rows the current handler has committed
  leaked_txn        \* a connection that outlived its handler holds the write transaction

vars == <<tables, user_profiles, quiz_results, sqlite_sequence, pc, req, local,
          conn, resp, faulted, wrote, leaked_txn>>

store == <<tables, user_profiles, quiz_results, sqlite_sequence>>

Init ==
  /\ tables = {}
  /\ user_profiles = {}
  /\ quiz_results = {}
  /\ sqlite_sequence = [t \in {"user_profiles", "quiz_results"} |-> 0]
  /\ pc = [p \in Procs |-> "boot"]
  /\ req = [p \in Procs |-> NoReq]
  /\ local = [p \in Procs |-> NoLocal]
  /\ conn = [p \in Procs |-> "none"]
  /\ resp = [p \in Procs |-> NoResp]
  /\ faulted = [p \in Procs |-> FALSE]
  /\ wrote = [p \in Procs |-> {}]
  /\ leaked_txn = FALSE

(* ------------------------------ the store ----------------------------- *)
Max(a, b) == IF a >= b THEN a ELSE b
MaxId(rows) == IF rows = {} THEN 0 ELSE CHOOSE m \in {r.id : r \in rows} : \A r \in rows : r.id <= m

\* another connection holds the write transaction of the database file
WriteLocked(p) == leaked_txn \/ \E q \in Procs \ {p} : conn[q] = "txn"

\* NextRowId that forgets the increment
NextRowIdNoIncrement(seq, rows) == Max(seq, MaxId(rows))

\* id INTEGER PRIMARY KEY AUTOINCREMENT: one more than the largest id the
\* table has ever held
NextRowId(seq, rows) == Max(seq, MaxId(rows)) + 1

\* CREATE TABLE after DROP TABLE IF EXISTS: the table starts empty every time
CreateTableFresh(exists, rows, seq) == [rows |-> {}, seq |-> 0]

\* CREATE TABLE IF NOT EXISTS that keeps the rows but starts the id counter anew
CreateTableResetSequence(exists, rows, seq) == [rows |-> IF exists THEN rows ELSE {}, seq |-> 0]

\* CREATE TABLE IF NOT EXISTS: the rows and the id counter a table has afterwards
CreateTableIfNotExists(exists, rows, seq) ==
  IF exists THEN [rows |-> rows, seq |-> seq] ELSE [rows |-> {}, seq |-> 0]

\* INSERT INTO user_profiles (family_size, location, skill_level) VALUES (?, ?, ?)
ProfileRow(id, family_size, location, skill_level) ==
  [id |-> id, family_size |-> family_size, location |-> location, skill_level |-> skill_level]

\* ResultRow with the first two parameters bound in the wrong order
ResultRowSwapped(id, user_id, module_id, score) ==
  [id |-> id, user_id |-> {module_id}, module_id |-> CHOOSE v \in user_id : TRUE, score |-> score]

\* INSERT INTO quiz_results (user_id, module_id, score) VALUES (?, ?, ?);
\* user_id is {n}, or {} for NULL
ResultRow(id, user_id, module_id, score) ==
  [id |-> id, user_id |-> user_id, module_id |-> module_id, score |-> score]

\* conn.commit(): the rows of the transaction become rows of the table
CommitRows(rows, pending) == rows \cup pending

(* ------------------------------ responses ----------------------------- *)
\* RedirectResponse(url="/modules", status_code=303), with the user_id cookie
\* when a user_id was obtained
OnboardingResponse(user_id) ==
  [NoResp EXCEPT !.status = 303, !.body = <<"/modules">>,
                 !.cookie = IF user_id # {} THEN PyStr(CHOOSE v \in user_id : TRUE) ELSE None]

\* ModuleRedirect that loses the module id: back to the list
ModuleRedirectToList(module_id) == [NoResp EXCEPT !.status = 303, !.body = <<"/modules">>]

\* RedirectResponse(url=f"/modules/{module_id}", status_code=303)
ModuleRedirect(module_id) == [NoResp EXCEPT !.status = 303, !.body = <<"/modules", module_id>>]

\* HTTPException(status_code=404, detail="Module not found")
NotFound == [NoResp EXCEPT !.status = 404, !.body = <<"Module not found">>]

\* the template each pure-read route renders (lines 340, 393, 455, 470)
TemplateOf(route) ==
  CASE route = "home" -> "onboarding.html"
    [] route = "modules_list" -> "modules.html"
    [] route = "view_checklist" -> "checklist.html"
    [] route = "resources_page" -> "resources.html"

\* templates.TemplateResponse(name, ...)
Template(name) == [NoResp EXCEPT !.status = 200, !.body = <<name>>]

\* templates.TemplateResponse("quiz_result.html", {..., "correct": correct})
QuizResultResponse(correct) == [Template("quiz_result.html") EXCEPT !.correct = correct]

\* the handler returns response r
Respond(p, r) ==
  /\ pc' = [pc EXCEPT ![p] = "done"]
  /\ resp' = [resp EXCEPT ![p] = r]

\* An exception jumps over conn.close(): the handler leaves the connection
\* open.  Whether it is still open once the handler has returned is up to the
\* runtime, which may close an unreferenced connection when the frame goes.
Abandon(p) == \E c \in {conn[p], "none"} : conn' = [conn EXCEPT ![p] = c]

(* ------------------------------- init_db ------------------------------ *)
\* line 53: conn = sqlite3.connect(DB_PATH); an exception leaves init_db and
\* the import of the module fails
InitDbConnect(p) ==
  /\ pc[p] = "boot"
  /\ \/ /\ conn' = [conn EXCEPT ![p] = "open"]
        /\ pc' = [pc EXCEPT ![p] = "create_user_profiles"]
        /\ UNCHANGED faulted
     \/ /\ pc' = [pc EXCEPT ![p] = "crashed"]
        /\ faulted' = [faulted EXCEPT ![p] = TRUE]
        /\ UNCHANGED conn
  /\ UNCHANGED <<store, req, local, resp, wrote, leaked_txn>>

\* lines 58-67: CREATE TABLE IF NOT EXISTS user_profiles
InitDbCreateProfiles(p) ==
  /\ pc[p] = "create_user_profiles"
  /\ \/ /\ "user_profiles" \in tables \/ ~WriteLocked(p)
        /\ LET t == CreateTableIfNotExists("user_profiles" \in tables, user_profiles,
                                           sqlite_sequence["user_profiles"])
           IN /\ tables' = tables \cup {"user_profiles"}
              /\ user_profiles' = t.rows
              /\ sqlite_sequence' = [sqlite_sequence EXCEPT !["user_profiles"] = t.seq]
        /\ pc' = [pc EXCEPT ![p] = "create_quiz_results"]
        /\ UNCHANGED <<quiz_results, faulted>>
     \/ /\ pc' = [pc EXCEPT ![p] = "crashed"]
        /\ faulted' = [faulted EXCEPT ![p] = TRUE]
        /\ UNCHANGED store
  /\ UNCHANGED <<req, local, conn, resp, wrote, leaked_txn>>

\* lines 71-82: CREATE TABLE IF NOT EXISTS quiz_results
InitDbCreateResults(p) ==
  /\ pc[p] = "create_quiz_results"
  /\ \/ /\ "quiz_results" \in tables \/ ~WriteLocked(p)
        /\ LET t == CreateTableIfNotExists("quiz_results" \in tables, quiz_results,
                                           sqlite_sequence["quiz_results"])
           IN /\ tables' = tables \cup {"quiz_results"}
              /\ quiz_results' = t.rows
              /\ sqlite_sequence' = [sqlite_sequence EXCEPT !["quiz_results"] = t.seq]
        /\ pc' = [pc EXCEPT ![p] = "init_commit"]
        /\ UNCHANGED <<user_profiles, faulted>>
     \/ /\ pc' = [pc EXCEPT ![p] = "crashed"]
        /\ faulted' = [faulted EXCEPT ![p] = TRUE]
        /\ UNCHANGED store
  /\ UNCHANGED <<req, local, conn, resp, wrote, leaked_txn>>

\* lines 83-84: conn.commit() (the CREATE statements are committed already),
\* conn.close(); the worker then serves requests
InitDbCommitClose(p) ==
  /\ pc[p] = "init_commit"
  /\ conn' = [conn EXCEPT ![p] = "none"]
  /\ pc' = [pc EXCEPT ![p] = "idle"]
  /\ UNCHANGED <<store, req, local, resp, faulted, wrote, leaked_txn>>

\* the worker process ends and is started again: its connections are closed
\* by the operating system and line 90 runs init_db once more
Restart(p) ==
  /\ pc[p] \in {"idle", "crashed"}
  /\ pc' = [pc EXCEPT ![p] = "boot"]
  /\ conn' = [conn EXCEPT ![p] = "none"]
  /\ faulted' = [faulted EXCEPT ![p] = FALSE]
  /\ UNCHANGED <<store, req, local, resp, wrote, leaked_txn>>

(* ----------------------------- pure reads ----------------------------- *)
\* home, modules_list, view_checklist, resources_page: render a template
ReadRoute(p, route) ==
  /\ pc[p] = "idle"
  /\ req' = [req EXCEPT ![p] = [NoReq EXCEPT !.kind = route]]
  /\ Respond(p, Template(TemplateOf(route)))
  /\ UNCHANGED <<store, local, conn, faulted, wrote, leaked_txn>>

\* lines 396-405: module_detail
ModuleDetail(p, module_id) ==
  /\ pc[p] = "idle"
  /\ req' = [req EXCEPT ![p] = [NoReq EXCEPT !.kind = "module_detail", !.module_id = module_id]]
  /\ Respond(p, IF GetModule(module_id) = {} THEN NotFound ELSE Template("module_detail.html"))
  /\ UNCHANGED <<store, local, conn, faulted, wrote, leaked_txn>>

(* -------------------------- submit_onboarding ------------------------- *)
\* line 361: if family_size_raw and location and skill_level
FieldsPresent(family_size_raw, location, skill_level) ==
  Truthy(family_size_raw) /\ Truthy(location) /\ Truthy(skill_level)

\* FamilySizeOk off by one: zero is let through
FamilySizeNonNegative(family_size) == family_size >= 0

\* line 363: if family_size > 0
FamilySizeOk(family_size) == family_size > 0

\* lines 361-363: the submission reaches the insert
PassesValidation(family_size_raw, location, skill_level) ==
  /\ FieldsPresent(family_size_raw, location, skill_level)
  /\ PyInt(family_size_raw).ok
  /\ FamilySizeOk(PyInt(family_size_raw).val)

\* lines 354-364: read the query parameters, validate, connect
OnboardingBegin(p, family_size_raw, location, skill_level) ==
  /\ pc[p] = "idle"
  /\ req' = [req EXCEPT ![p] = OnboardingReq(family_size_raw, location, skill_level)]
  /\ IF ~PassesValidation(family_size_raw, location, skill_level)
       THEN \* nothing to persist (or int() raised): redirect without a cookie
            /\ Respond(p, OnboardingResponse({}))
            /\ UNCHANGED <<conn, faulted>>
       ELSE \/ /\ conn' = [conn EXCEPT ![p] = "open"]
               /\ pc' = [pc EXCEPT ![p] = "onboarding_execute"]
               /\ UNCHANGED <<resp, faulted>>
            \/ \* sqlite3.connect raises: swallowed at line 373
               /\ faulted' = [faulted EXCEPT ![p] = TRUE]
               /\ Respond(p, OnboardingResponse({}))
               /\ UNCHANGED conn
  /\ UNCHANGED <<store, local, wrote, leaked_txn>>

\* lines 365-370: cur.execute(INSERT ...), user_id = cur.lastrowid
OnboardingExecute(p) ==
  /\ pc[p] = "onboarding_execute"
  /\ \/ /\ ~WriteLocked(p)
        /\ "user_profiles" \in tables
        /\ NextRowId(sqlite_sequence["user_profiles"], user_profiles) <= MaxProfileId
        /\ LET id == NextRowId(sqlite_sequence["user_profiles"], user_profiles)
               row == ProfileRow(id, PyInt(req[p].family_size).val, req[p].location,
                                 req[p].skill_level)
           IN local' = [local EXCEPT ![p] = [user_id |-> {id}, pending |-> {row}]]
        /\ conn' = [conn EXCEPT ![p] = "txn"]
        /\ pc' = [pc EXCEPT ![p] = "onboarding_commit"]
        /\ UNCHANGED <<resp, faulted>>
     \/ \* the statement raises (database locked, I/O error): swallowed at
        \* line 373, conn.close() at line 372 is skipped
        /\ faulted' = [faulted EXCEPT ![p] = TRUE]
        /\ Respond(p, OnboardingResponse(local[p].user_id))
        /\ Abandon(p)
        /\ UNCHANGED local
  /\ UNCHANGED <<store, req, wrote, leaked_txn>>

\* line 371: conn.commit()
OnboardingCommit(p) ==
  /\ pc[p] = "onboarding_commit"
  /\ \/ /\ user_profiles' = CommitRows(user_profiles, local[p].pending)
        /\ sqlite_sequence' = [sqlite_sequence EXCEPT !["user_profiles"] =
                                 Max(@, MaxId(local[p].pending))]
        /\ wrote' = [wrote EXCEPT ![p] = @ \cup local[p].pending]
        /\ local' = [local EXCEPT ![p].pending = {}]
        /\ conn' = [conn EXCEPT ![p] = "open"]
        /\ pc' = [pc EXCEPT ![p] = "onboarding_close"]
        /\ UNCHANGED <<resp, faulted>>
     \/ \* the commit raises: swallowed at line 373 with user_id already set,
        \* the transaction stays open on a connection nobody closes
        /\ faulted' = [faulted EXCEPT ![p] = TRUE]
        /\ Respond(p, OnboardingResponse(local[p].user_id))
        /\ Abandon(p)
        /\ UNCHANGED <<user_profiles, sqlite_sequence, wrote, local>>
  /\ UNCHANGED <<tables, quiz_results, req, leaked_txn>>

\* lines 372-387: conn.close(), then the redirect with the cookie
OnboardingClose(p) ==
  /\ pc[p] = "onboarding_close"
  /\ conn' = [conn EXCEPT ![p] = "none"]
  /\ Respond(p, OnboardingResponse(local[p].user_id))
  /\ UNCHANGED <<store, req, local, faulted, wrote, leaked_txn>>

(* ----------------------------- submit_quiz ---------------------------- *)
\* RecordPlan that records the attempt of a client without a cookie, with a
\* NULL user_id
RecordPlanAnonymous(user_id_str) ==
  IF user_id_str = None THEN [record |-> TRUE, user_id |-> {}]
  ELSE IF ~PyInt(user_id_str).ok THEN [record |-> FALSE, user_id |-> {}]
  ELSE [record |-> TRUE, user_id |-> {PyInt(user_id_str).val}]

\* lines 425-428: a result is recorded only if a user_id cookie is present
\* (line 426) and int(user_id_str) does not raise (line 428, swallowed at 438)
RecordPlan(user_id_str) ==
  IF user_id_str = None THEN [record |-> FALSE, user_id |-> {}]
  ELSE IF ~PyInt(user_id_str).ok THEN [record |-> FALSE, user_id |-> {}]
  ELSE [record |-> TRUE, user_id |-> {PyInt(user_id_str).val}]

\* lines 417-431: look the module up, read selected_option, grade, read the
\* cookie, parse it, connect
QuizBegin(p, module_id, selected_option, cookie) ==
  /\ pc[p] = "idle"
  /\ req' = [req EXCEPT ![p] = QuizReq(module_id, selected_option, cookie)]
  /\ LET module == GetModule(module_id)
         correct == Grade(selected_option, CHOOSE m \in module : TRUE)
     IN IF module = {}
          THEN /\ Respond(p, NotFound)
               /\ UNCHANGED <<local, conn, faulted>>
          ELSE IF ~Truthy(selected_option)
          THEN /\ Respond(p, ModuleRedirect(module_id))
               /\ UNCHANGED <<local, conn, faulted>>
          ELSE IF ~RecordPlan(cookie).record
          THEN /\ Respond(p, QuizResultResponse(correct))
               /\ UNCHANGED <<local, conn, faulted>>
          ELSE \/ /\ local' = [local EXCEPT ![p].user_id = RecordPlan(cookie).user_id]
                  /\ conn' = [conn EXCEPT ![p] = "open"]
                  /\ pc' = [pc EXCEPT ![p] = "quiz_execute"]
                  /\ UNCHANGED <<resp, faulted>>
               \/ \* sqlite3.connect raises: swallowed at line 438
                  /\ faulted' = [faulted EXCEPT ![p] = TRUE]
                  /\ Respond(p, QuizResultResponse(correct))
                  /\ UNCHANGED <<local, conn>>
  /\ UNCHANGED <<store, wrote, leaked_txn>>

\* the verdict of the request in hand (line 423; the locals do not change)
Correct(p) == Grade(req[p].selected_option, CHOOSE m \in GetModule(req[p].module_id) : TRUE)

\* QuizExecute without the except clause: the exception reaches the framework,
\* which answers 500
QuizExecuteRaises(p) ==
  /\ pc[p] = "quiz_execute"
  /\ \/ /\ ~WriteLocked(p)
        /\ "quiz_results" \in tables
        /\ NextRowId(sqlite_sequence["quiz_results"], quiz_results) <= MaxResultId
        /\ LET id == NextRowId(sqlite_sequence["quiz_results"], quiz_results)
               row == ResultRow(id, local[p].user_id, req[p].module_id, Score(Correct(p)))
           IN local' = [local EXCEPT ![p].pending = {row}]
        /\ conn' = [conn EXCEPT ![p] = "txn"]
        /\ pc' = [pc EXCEPT ![p] = "quiz_commit"]
        /\ UNCHANGED <<resp, faulted>>
     \/ /\ faulted' = [faulted EXCEPT ![p] = TRUE]
        /\ Respond(p, [NoResp EXCEPT !.status = 500])
        /\ Abandon(p)
        /\ UNCHANGED local
  /\ UNCHANGED <<store, req, wrote, leaked_txn>>

\* lines 431-435: cur.execute(INSERT INTO quiz_results ...)
QuizExecute(p) ==
  /\ pc[p] = "quiz_execute"
  /\ \/ /\ ~WriteLocked(p)
        /\ "quiz_results" \in tables
        /\ NextRowId(sqlite_sequence["quiz_results"], quiz_results) <= MaxResultId
        /\ LET id == NextRowId(sqlite_sequence["quiz_results"], quiz_results)
               row == ResultRow(id, local[p].user_id, req[p].module_id, Score(Correct(p)))
           IN local' = [local EXCEPT ![p].pending = {row}]
        /\ conn' = [conn EXCEPT ![p] = "txn"]
        /\ pc' = [pc EXCEPT ![p] = "quiz_commit"]
        /\ UNCHANGED <<resp, faulted>>
     \/ \* the statement raises: swallowed at line 438, conn.close() is skipped
        /\ faulted' = [faulted EXCEPT ![p] = TRUE]
        /\ Respond(p, QuizResultResponse(Correct(p)))
        /\ Abandon(p)
        /\ UNCHANGED local
  /\ UNCHANGED <<store, req, wrote, leaked_txn>>

\* line 436: conn.commit()
QuizCommit(p) ==
  /\ pc[p] = "quiz_commit"
  /\ \/ /\ quiz_results' = CommitRows(quiz_results, local[p].pending)
        /\ sqlite_sequence' = [sqlite_sequence EXCEPT !["quiz_results"] =
                                 Max(@, MaxId(local[p].pending))]
        /\ wrote' = [wrote EXCEPT ![p] = @ \cup local[p].pending]
        /\ local' = [local EXCEPT ![p].pending = {}]
        /\ conn' = [conn EXCEPT ![p] = "open"]
        /\ pc' = [pc EXCEPT ![p] = "quiz_close"]
        /\ UNCHANGED <<resp, faulted>>
     \/ \* the commit raises: swallowed at line 438, conn.close() is skipped
        /\ faulted' = [faulted EXCEPT ![p] = TRUE]
        /\ Respond(p, QuizResultResponse(Correct(p)))
        /\ Abandon(p)
        /\ UNCHANGED <<quiz_results, sqlite_sequence, wrote, local>>
  /\ UNCHANGED <<tables, user_profiles, req, leaked_txn>>

\* lines 437-449: conn.close(), then the rendered verdict
QuizClose(p) ==
  /\ pc[p] = "quiz_close"
  /\ conn' = [conn EXCEPT ![p] = "none"]
  /\ Respond(p, QuizResultResponse(Correct(p)))
  /\ UNCHANGED <<store, req, local, faulted, wrote, leaked_txn>>

(* ------------------------ after a handler returns --------------------- *)
\* The response is sent and the worker takes the next request.  A connection
\* that is still open stays so until the runtime collects it; until then a
\* transaction it holds keeps the database file locked.
Return(p) ==
  /\ pc[p] = "done"
  /\ pc' = [pc EXCEPT ![p] = "idle"]
  /\ req' = [req EXCEPT ![p] = NoReq]
  /\ local' = [local EXCEPT ![p] = NoLocal]
  /\ resp' = [resp EXCEPT ![p] = NoResp]
  /\ faulted' = [faulted EXCEPT ![p] = FALSE]
  /\ wrote' = [wrote EXCEPT ![p] = {}]
  /\ conn' = [conn EXCEPT ![p] = "none"]
  /\ leaked_txn' = (leaked_txn \/ conn[p] = "txn")
  /\ UNCHANGED store

\* the runtime collects a leaked connection: it is closed, and an open
\* transaction is rolled back
Finalize ==
  /\ leaked_txn
  /\ leaked_txn' = FALSE
  /\ UNCHANGED <<store, pc, req, local, conn, resp, faulted, wrote>>

(* ---------------------------- specification --------------------------- *)
Next ==
  \/ \E p \in Procs : InitDbConnect(p)
  \/ \E p \in Procs : InitDbCreateProfiles(p)
  \/ \E p \in Procs : InitDbCreateResults(p)
  \/ \E p \in Procs : InitDbCommitClose(p)
  \/ \E p \in Procs : Restart(p)
  \/ \E p \in Procs, route \in ReadRoutes : ReadRoute(p, route)
  \/ \E p \in Procs, module_id \in ModuleIdInputs : ModuleDetail(p, module_id)
  \/ \E p \in Procs, i \in OnboardingInputs : OnboardingBegin(p, i[1], i[2], i[3])
  \/ \E p \in Procs : OnboardingExecute(p)
  \/ \E p \in Procs : OnboardingCommit(p)
  \/ \E p \in Procs : OnboardingClose(p)
  \/ \E p \in Procs, i \in QuizInputs : QuizBegin(p, i[1], i[2], i[3])
  \/ \E p \in Procs : QuizExecute(p)
  \/ \E p \in Procs : QuizCommit(p)
  \/ \E p \in Procs : QuizClose(p)
  \/ \E p \in Procs : Return(p)
  \/ Finalize

Spec == Init /\ [][Next]_vars

(* ------------------------------ properties ---------------------------- *)
InCatalog(module_id) == \E i \in 1..Len(modules) : modules[i].id = module_id
AnswerOf(module_id) == modules[CHOOSE i \in 1..Len(modules) : modules[i].id = module_id].answer
Returned(p, kind) == pc[p] = "done" /\ req[p].kind = kind

\* an onboarding submission that passes validation, as the specification words it
ValidSubmission(r) ==
  /\ r.family_size # None /\ PyInt(r.family_size).ok /\ PyInt(r.family_size).val > 0
  /\ r.location # None /\ r.location # <<>>
  /\ r.skill_level # None /\ r.skill_level # <<>>

\* an onboarding submission that fails validation, as the specification words it
InvalidSubmission(r) ==
  \/ r.family_size \in {None, <<>>} \/ r.location \in {None, <<>>} \/ r.skill_level \in {None, <<>>}
  \/ ~PyInt(r.family_size).ok
  \/ PyInt(r.family_size).val <= 0

\* a quiz submission for an existing module with a selected option
GradedQuiz(p) ==
  /\ Returned(p, "submit_quiz")
  /\ InCatalog(req[p].module_id)
  /\ req[p].selected_option \notin {None, <<>>}

\* C1: every onboarding submission that passes validation and meets no
\* storage fault adds exactly one user_profiles row; the id of a new row is
\* positive and greater than the id of every row that was there before it, in
\* every interleaving, so no two rows share an id.
C1_ProfileIdsIncrease ==
  [][/\ \A p \in Procs :
          (/\ pc'[p] = "done"
           /\ req'[p].kind = "submit_onboarding"
           /\ ValidSubmission(req'[p])
           /\ ~faulted'[p])
          => \E r \in user_profiles' :
               /\ wrote'[p] = {r}
               /\ local'[p].user_id = {r.id}
               /\ r.family_size = PyInt(req'[p].family_size).val
               /\ r.location = req'[p].location
               /\ r.skill_level = req'[p].skill_level
     /\ Cardinality(user_profiles' \ user_profiles) <= 1
     /\ \A r \in user_profiles' \ user_profiles :
          r.id > 0 /\ \A s \in user_profiles : r.id > s.id
     /\ \A r, s \in user_profiles' : r.id = s.id => r = s]_vars

C1_Witness ==
  \E p \in Procs :
    /\ Returned(p, "submit_onboarding") /\ ~faulted[p]
    /\ \E r \in wrote[p] : r.id = 2 /\ \E s \in user_profiles : s.id = 1

\* C2: the id a successful onboarding hands out as the user_id cookie, when
\* presented on a quiz submission (existing module, selected option, no
\* storage fault), gives exactly one quiz_results row, whose user_id is that
\* id and whose module_id is the requested module.
C2_TokenRoundTrip ==
  /\ \A p \in Procs :
       (Returned(p, "submit_onboarding") /\ ~faulted[p])
       => \A r \in wrote[p] : resp[p].cookie = PyStr(r.id)
  /\ \A p \in Procs :
       (GradedQuiz(p) /\ ~faulted[p])
       => \A u \in user_profiles :
            req[p].cookie = PyStr(u.id)
            => \E r \in quiz_results :
                 /\ wrote[p] = {r}
                 /\ r.user_id = {u.id}
                 /\ r.module_id = req[p].module_id

C2_Witness ==
  \E p \in Procs :
    /\ GradedQuiz(p) /\ ~faulted[p]
    /\ \E u \in user_profiles : u.id = 2 /\ req[p].cookie = PyStr(u.id)
    /\ wrote[p] # {}

\* C3 as claimed: a quiz submission for an existing module with a selected
\* option and no user_id cookie inserts a quiz_results row whose user_id is NULL.
C3_AnonymousRowRecorded ==
  \A p \in Procs :
    (GradedQuiz(p) /\ req[p].cookie = None)
    => \E r \in quiz_results : r \in wrote[p] /\ r.user_id = {}

\* C3 amended: a quiz submission for an existing module with a selected
\* option and no user_id cookie inserts no quiz_results row and opens no
\* connection; the verdict is rendered all the same, and no row with a NULL
\* user_id is ever stored.
C3_AnonymousNotRecorded ==
  /\ \A p \in Procs :
       (GradedQuiz(p) /\ req[p].cookie = None)
       => /\ wrote[p] = {}
          /\ local[p].pending = {}
          /\ conn[p] = "none"
          /\ resp[p].status = 200
  /\ \A r \in quiz_results : r.user_id # {}

C3_Witness ==
  \E p \in Procs : GradedQuiz(p) /\ req[p].cookie = None /\ resp[p].correct

\* C4 as claimed: once a handler has returned, the connection it opened is
\* closed, on the exception paths too.
C4_ConnectionsReleased ==
  \A p \in Procs : pc[p] = "done" => conn[p] = "none"

\* C5: an onboarding submission that fails validation writes no
\* user_profiles row, sets no cookie, and is answered with the redirect to
\* /modules (303), no error surfaced.
C5_InvalidOnboardingSkipped ==
  \A p \in Procs :
    (Returned(p, "submit_onboarding") /\ InvalidSubmission(req[p]))
    => /\ wrote[p] = {}
       /\ local[p] = NoLocal
       /\ conn[p] = "none"
       /\ resp[p] = [status |-> 303, body |-> <<"/modules">>, cookie |-> None, correct |-> FALSE]

C5_Witness ==
  \E p \in Procs :
    /\ Returned(p, "submit_onboarding")
    /\ req[p].family_size = <<"0">> /\ req[p].location = Portland /\ req[p].skill_level = Beginner
    /\ user_profiles # {}

\* C6: for a catalog module and a non-empty selected option, correct is true
\* exactly when the option equals the module's answer character for character,
\* and a quiz_results row of that submission has score 1 if so and 0 if not.
C6_VerdictIsExactEquality ==
  \A p \in Procs :
    GradedQuiz(p)
    => LET expected == req[p].selected_option = AnswerOf(req[p].module_id)
       IN /\ resp[p].correct = expected
          /\ \A r \in wrote[p] \cup local[p].pending : r.score = IF expected THEN 1 ELSE 0

C6_Witness ==
  /\ \E p \in Procs :
       GradedQuiz(p) /\ req[p].selected_option = OneGallonSpace /\ \E r \in wrote[p] : r.score = 0
  /\ \E p \in Procs :
       GradedQuiz(p) /\ req[p].selected_option = OneGallon /\ resp[p].correct

\* C7: a quiz submission for an existing module with a non-empty selected
\* option is answered with the rendered verdict, and the verdict depends on
\* the option and the module only: a storage fault, an absent cookie or a
\* cookie that is no integer leave the response as it is and only keep the
\* row from being recorded.
C7_VerdictAlwaysRendered ==
  \A p \in Procs :
    GradedQuiz(p)
    => /\ resp[p] = [status |-> 200, body |-> <<"quiz_result.html">>, cookie |-> None,
                     correct |-> (req[p].selected_option = AnswerOf(req[p].module_id))]
       /\ (faulted[p] \/ req[p].cookie = None \/ ~PyInt(req[p].cookie).ok) => wrote[p] = {}

C7_Witness ==
  /\ \E p \in Procs : GradedQuiz(p) /\ faulted[p] /\ resp[p].correct
  /\ \E p \in Procs : GradedQuiz(p) /\ req[p].cookie = <<"x">>

\* C8: a quiz submission for an existing module with no selected option
\* (missing or empty) is answered with the redirect to that module's detail
\* view and writes no quiz_results row, whatever cookie is presented.
C8_NoSelectionRedirects ==
  \A p \in Procs :
    (/\ Returned(p, "submit_quiz")
     /\ InCatalog(req[p].module_id)
     /\ req[p].selected_option \in {None, <<>>})
    => /\ resp[p] = [status |-> 303, body |-> <<"/modules", req[p].module_id>>,
                     cookie |-> None, correct |-> FALSE]
       /\ wrote[p] = {}
       /\ local[p] = NoLocal
       /\ conn[p] = "none"

C8_Witness ==
  /\ \E p \in Procs :
       /\ Returned(p, "submit_quiz") /\ req[p].module_id = 1
       /\ req[p].selected_option = <<>>
       /\ \E u \in user_profiles : req[p].cookie = PyStr(u.id)
  /\ \E p \in Procs :
       Returned(p, "submit_quiz") /\ req[p].module_id = 1 /\ req[p].selected_option = None

\* C9: a module view or a quiz submission for an id that is not in the
\* catalog is answered with 404 in the handler's first step, before any
\* grading or write: both tables are as they were, whatever option and cookie
\* came with it.
C9_UnknownModuleNotFound ==
  [][\A p \in Procs :
       (/\ pc[p] # "done" /\ pc'[p] = "done"
        /\ req'[p].kind \in {"module_detail", "submit_quiz"}
        /\ ~InCatalog(req'[p].module_id))
       => /\ pc[p] = "idle"
          /\ resp'[p] = [status |-> 404, body |-> <<"Module not found">>,
                         cookie |-> None, correct |-> FALSE]
          /\ user_profiles' = user_profiles
          /\ quiz_results' = quiz_results
          /\ wrote'[p] = {} /\ conn'[p] = "none"]_vars

C9_Witness ==
  /\ \E p \in Procs :
       /\ Returned(p, "submit_quiz") /\ req[p].module_id = 999
       /\ req[p].selected_option = OneGallon
       /\ \E u \in user_profiles : req[p].cookie = PyStr(u.id)
  /\ \E p \in Procs : Returned(p, "module_detail") /\ req[p].module_id = 999

\* C10: the store is append-only: no step of any request or of init_db
\* changes or removes a user_profiles or quiz_results row that exists, and
\* the pure-read routes leave both tables as they were.
C10_AppendOnly ==
  [][/\ user_profiles \subseteq user_profiles'
     /\ quiz_results \subseteq quiz_results'
     /\ \A p \in Procs :
          (/\ pc[p] = "idle" /\ pc'[p] = "done"
           /\ req'[p].kind \in ReadRoutes \cup {"module_detail"})
          => (user_profiles' = user_profiles /\ quiz_results' = quiz_results)]_vars

C10_Witness ==
  /\ user_profiles # {} /\ quiz_results # {}
  /\ \E p \in Procs : pc[p] = "init_commit"
  /\ \E p \in Procs : pc[p] = "done" /\ req[p].kind \in ReadRoutes

\* a worker is inside init_db
InInitDb(p) == pc[p] \in {"boot", "create_user_profiles", "create_quiz_results", "init_commit"}

\* C11: init_db is idempotent: a step of init_db, on a store that holds rows
\* or not, however often and between whatever requests it runs, leaves every
\* user_profiles and quiz_results row as it was, adds none, and leaves the id
\* counters where they were; the counters never go back, so a row inserted
\* later gets an id above every id committed before.
C11_InitDbIdempotent ==
  [][/\ \A p \in Procs :
          (InInitDb(p) /\ pc'[p] # pc[p])
          => /\ user_profiles' = user_profiles
             /\ quiz_results' = quiz_results
             /\ sqlite_sequence' = sqlite_sequence
             /\ tables \subseteq tables'
     /\ \A t \in DOMAIN sqlite_sequence : sqlite_sequence'[t] >= sqlite_sequence[t]
     /\ \A r \in user_profiles' \ user_profiles : r.id > sqlite_sequence["user_profiles"]
     /\ \A r \in quiz_results' \ quiz_results : r.id > sqlite_sequence["quiz_results"]]_vars

C11_Witness ==
  /\ \E r \in user_profiles : r.id = 2
  /\ quiz_results # {}
  /\ sqlite_sequence["user_profiles"] = 2
  /\ \E p \in Procs : pc[p] = "idle"
  /\ \E p \in Procs : pc[p] = "init_commit"

\* C12 as claimed: whenever the onboarding response sets the user_id cookie
\* to v, a user_profiles row with id v is in the store.
C12_TokenOnlyForStoredProfile ==
  \A p \in Procs :
    (Returned(p, "submit_onboarding") /\ resp[p].cookie # None)
    => \E r \in user_profiles : resp[p].cookie = PyStr(r.id)

====
